---- MODULE Spec2Model ----
(***************************************************************************)
(* Model of cmd/witr/main.go: the command-line pipeline                    *)
(*   reorder os.Args -> flag.Parse -> target selection -> target.Resolve   *)
(*   -> (candidate listing | process.BuildAncestry -> source.Detect ->     *)
(*   source.Warnings -> one renderer).                                     *)
(* Strings that the code inspects character by character (command-line     *)
(* arguments, flag values, process commands) are sequences of one-         *)
(* character strings.  Error texts are sequences of words.                 *)
(* The OS process table and socket table are state that the environment    *)
(* changes between the reads of the pipeline (a process may exit).         *)
(***************************************************************************)
EXTENDS Integers, Sequences, FiniteSets, TLC

VARIABLES
    args,        \* os.Args as the user entered it (never changed)
    osArgs,      \* os.Args as the program sees it (overwritten at line 41)
    pc,          \* position of main: start, resolve, list, build, render, exit
    flags,       \* values of the flag variables after flag.Parse
    positionals, \* flag.Args()
    t,           \* model.Target
    live,        \* pids currently in the OS process table
    exits,       \* number of processes that exited during the run
    pids,        \* candidate pids returned by target.Resolve
    err,         \* the err variable of main (Resolve's, then BuildAncestry's)
    resolveErr,  \* history: the error target.Resolve returned
    pid,         \* the pid handed to process.BuildAncestry
    ancestry,    \* the chain returned by process.BuildAncestry
    res,         \* model.Result
    calls,       \* history: collaborators invoked, in order
    out,         \* lines written to standard output, in order
    exitCode     \* process exit status, -1 while running

vars == <<args, osArgs, pc, flags, positionals, t, live, exits, pids, err,
          resolveErr, pid, ancestry, res, calls, out, exitCode>>

----------------------------------------------------------------------------
(* Bounds *)

MaxArgs == 3
MaxExits == 1

----------------------------------------------------------------------------
(* Command-line tokens *)

Prog == <<"w","i","t","r">>

N_pid == <<"p","i","d">>
N_port == <<"p","o","r","t">>
N_short == <<"s","h","o","r","t">>
N_tree == <<"t","r","e","e">>
N_json == <<"j","s","o","n">>
N_warnings == <<"w","a","r","n","i","n","g","s">>
N_nocolor == <<"n","o","-","c","o","l","o","r">>
N_help == <<"h","e","l","p">>

Long(name) == <<"-","-">> \o name

T_pid == Long(N_pid)
T_port == Long(N_port)
T_short == Long(N_short)
T_tree == Long(N_tree)
T_json == Long(N_json)
T_warnings == Long(N_warnings)
T_nocolor == Long(N_nocolor)
T_help == Long(N_help)
T_portEq3 == Long(N_port) \o <<"=","3">>
T_undef == <<"-","x">>

BoolTokens == {T_short, T_tree, T_json, T_warnings, T_nocolor}

ValueTokens == {<<"1">>, <<"2">>, <<"3">>, <<"s","h">>, <<"b","a">>}

Tokens == BoolTokens \cup ValueTokens \cup {T_pid, T_port, T_help, T_portEq3, T_undef}

RECURSIVE SeqsUpTo(_,_)
SeqsUpTo(S, n) ==
    IF n = 0 THEN {<<>>}
    ELSE LET shorter == SeqsUpTo(S, n - 1)
         IN shorter \cup {Append(s, x) : s \in {q \in shorter : Len(q) = n - 1}, x \in S}

ArgLists == {<<Prog>> \o a : a \in SeqsUpTo(Tokens, MaxArgs)}

----------------------------------------------------------------------------
(* main.go 30-41: reorder os.Args so all flags come before positionals *)

IsDashArg(arg) == Len(arg) > 0 /\ arg[1] = "-"

Reorder(a) ==
    LET rest == Tail(a)
        dashed == SelectSeq(rest, IsDashArg)
        plain == SelectSeq(rest, LAMBDA x : ~IsDashArg(x))
    IN (<<a[1]>> \o dashed) \o plain

----------------------------------------------------------------------------
(* main.go 43-52: the flag set and flag.Parse (Go's flag package, called    *)
(* at line 52 on os.Args[1:])                                              *)

FlagDefaults ==
    [pid |-> <<>>, port |-> <<>>, short |-> FALSE, tree |-> FALSE,
     json |-> FALSE, warnings |-> FALSE, nocolor |-> FALSE, help |-> FALSE]

FlagKey(name) ==
    CASE name = N_pid -> "pid"
      [] name = N_port -> "port"
      [] name = N_short -> "short"
      [] name = N_tree -> "tree"
      [] name = N_json -> "json"
      [] name = N_warnings -> "warnings"
      [] name = N_nocolor -> "nocolor"
      [] name = N_help -> "help"
      [] OTHER -> "undefined"

IsBoolFlag(key) == key \in {"short", "tree", "json", "warnings", "nocolor", "help"}

\* strconv.ParseBool, as used by the boolean flags' Set
ParseBool(v) ==
    CASE v \in {<<"1">>, <<"t">>, <<"T">>, <<"t","r","u","e">>,
                <<"T","R","U","E">>, <<"T","r","u","e">>} -> "true"
      [] v \in {<<"0">>, <<"f">>, <<"F">>, <<"f","a","l","s","e">>,
                <<"F","A","L","S","E">>, <<"F","a","l","s","e">>} -> "false"
      [] OTHER -> "error"

\* index of the first "=" of name at position >= 2 ("equals cannot be first"), 0 if none
EqualsIndex(name) ==
    LET idx == {i \in 2..Len(name) : name[i] = "="}
    IN IF idx = {} THEN 0 ELSE CHOOSE i \in idx : \A j \in idx : i <= j

SetFlag(fs, key, value) ==
    IF IsBoolFlag(key) THEN [fs EXCEPT ![key] = (ParseBool(value) = "true")]
    ELSE [fs EXCEPT ![key] = value]

\* flag.FlagSet.Parse: repeat parseOne until a non-flag, "--" or an error
RECURSIVE FlagParse(_,_)
FlagParse(fs, a) ==
    IF Len(a) = 0 THEN [flags |-> fs, rest |-> a, error |-> "none"]
    ELSE
    LET s == a[1] IN
    IF Len(s) < 2 \/ s[1] # "-" THEN [flags |-> fs, rest |-> a, error |-> "none"]
    ELSE
    LET numMinuses == IF s[2] = "-" THEN 2 ELSE 1 IN
    IF numMinuses = 2 /\ Len(s) = 2 THEN [flags |-> fs, rest |-> Tail(a), error |-> "none"]
    ELSE
    LET full == SubSeq(s, numMinuses + 1, Len(s)) IN
    IF Len(full) = 0 \/ full[1] = "-" \/ full[1] = "="
    THEN [flags |-> fs, rest |-> a, error |-> "bad flag syntax"]
    ELSE
    LET eq == EqualsIndex(full)
        name == IF eq # 0 THEN SubSeq(full, 1, eq - 1) ELSE full
        inlineValue == IF eq # 0 THEN SubSeq(full, eq + 1, Len(full)) ELSE <<>>
        key == FlagKey(name)
        after == Tail(a)
    IN
    IF key = "undefined"
    THEN [flags |-> fs, rest |-> after, error |-> "flag provided but not defined"]
    ELSE IF IsBoolFlag(key)
    THEN IF eq # 0
         THEN IF ParseBool(inlineValue) = "error"
              THEN [flags |-> fs, rest |-> after, error |-> "invalid boolean value"]
              ELSE FlagParse(SetFlag(fs, key, inlineValue), after)
         ELSE FlagParse(SetFlag(fs, key, <<"t","r","u","e">>), after)
    ELSE IF eq # 0
         THEN FlagParse(SetFlag(fs, key, inlineValue), after)
         ELSE IF Len(after) > 0
              THEN FlagParse(SetFlag(fs, key, after[1]), Tail(after))
              ELSE [flags |-> fs, rest |-> after, error |-> "flag needs an argument"]

----------------------------------------------------------------------------
(* main.go 59-71: target selection *)

NoTarget == [Type |-> "none", Value |-> <<>>]

SelectTarget(fs, pos) ==
    IF fs.pid # <<>> THEN [Type |-> "PID", Value |-> fs.pid]
    ELSE IF fs.port # <<>> THEN [Type |-> "Port", Value |-> fs.port]
    ELSE IF Len(pos) > 0 THEN [Type |-> "Name", Value |-> pos[1]]
    ELSE NoTarget

----------------------------------------------------------------------------
(* The OS process table and socket table (spec 3, 6): init(1) -> sshd(2)   *)
(* -> sshd(3) -> bash(4); a process that exited is no longer in `live`.    *)

C_init == <<"i","n","i","t">>
C_sshd == <<"s","s","h","d">>
C_bash == <<"b","a","s","h">>

ProcTable ==
    (1 :> [pid |-> 1, parentPid |-> 0, command |-> C_init, state |-> "sleeping"]) @@
    (2 :> [pid |-> 2, parentPid |-> 1, command |-> C_sshd, state |-> "sleeping"]) @@
    (3 :> [pid |-> 3, parentPid |-> 2, command |-> C_sshd, state |-> "sleeping"]) @@
    (4 :> [pid |-> 4, parentPid |-> 3, command |-> C_bash, state |-> "running"])

AllPids == DOMAIN ProcTable

\* port 1: one owner; port 2: shared by two owners; port 3: owner's fd table unreadable
SocketTable ==
    {[localPort |-> 1, inode |-> 11, owner |-> 2, readable |-> TRUE],
     [localPort |-> 2, inode |-> 12, owner |-> 3, readable |-> TRUE],
     [localPort |-> 2, inode |-> 13, owner |-> 4, readable |-> TRUE],
     [localPort |-> 3, inode |-> 14, owner |-> 1, readable |-> FALSE]}

\* ProcessSnapshot Reader: a single read of the process table
Readable(lv, p) == p \in lv

ReadProcess(p) == ProcTable[p]

----------------------------------------------------------------------------
(* Helpers on strings and sets *)

\* strings.Contains on sequences: sub occurs contiguously in s
Contains(s, sub) ==
    \E i \in 0..(Len(s) - Len(sub)) : SubSeq(s, i + 1, i + Len(sub)) = sub

Digits == {"0","1","2","3","4","5","6","7","8","9"}

DigitVal(c) ==
    CASE c = "0" -> 0 [] c = "1" -> 1 [] c = "2" -> 2 [] c = "3" -> 3
      [] c = "4" -> 4 [] c = "5" -> 5 [] c = "6" -> 6 [] c = "7" -> 7
      [] c = "8" -> 8 [] c = "9" -> 9

IsNumber(v) == Len(v) > 0 /\ \A i \in 1..Len(v) : v[i] \in Digits

RECURSIVE Atoi(_)
Atoi(v) == IF Len(v) = 0 THEN 0
           ELSE 10 * Atoi(SubSeq(v, 1, Len(v) - 1)) + DigitVal(v[Len(v)])

RECURSIVE SortedSeq(_)
SortedSeq(S) ==
    IF S = {} THEN <<>>
    ELSE LET m == CHOOSE x \in S : \A y \in S : x <= y
         IN <<m>> \o SortedSeq(S \ {m})

----------------------------------------------------------------------------
(* target.Resolve (spec 4.1, 7): candidate pids in ascending order, or an   *)
(* error of kind InvalidQuery, NotFound or OwnerNotDetected                 *)

NoErr == [kind |-> "nil", text |-> <<>>]

OwnerNotDetectedText == <<"socket","found","but","owning","process","not","detected">>

ErrorOf(kind) ==
    CASE kind = "OwnerNotDetected" -> [kind |-> kind, text |-> OwnerNotDetectedText]
      [] kind = "NotFound" -> [kind |-> kind, text |-> <<"process","not","found">>]
      [] kind = "InvalidQuery" -> [kind |-> kind, text |-> <<"invalid","query">>]

ResolvePID(lv, value) ==
    IF ~IsNumber(value) \/ Atoi(value) < 1 THEN [pids |-> <<>>, err |-> ErrorOf("InvalidQuery")]
    ELSE IF ~Readable(lv, Atoi(value)) THEN [pids |-> <<>>, err |-> ErrorOf("NotFound")]
    ELSE [pids |-> <<Atoi(value)>>, err |-> NoErr]

ResolveName(lv, value) ==
    LET matches == {p \in lv : Contains(ReadProcess(p).command, value)}
    IN IF matches = {} THEN [pids |-> <<>>, err |-> ErrorOf("NotFound")]
       ELSE [pids |-> SortedSeq(matches), err |-> NoErr]

ResolvePort(lv, value) ==
    IF ~IsNumber(value) \/ Atoi(value) > 65535 THEN [pids |-> <<>>, err |-> ErrorOf("InvalidQuery")]
    ELSE
    LET socks == {s \in SocketTable : s.localPort = Atoi(value) /\ s.owner \in lv}
        owners == {s.owner : s \in {x \in socks : x.readable}}
    IN IF socks = {} THEN [pids |-> <<>>, err |-> ErrorOf("NotFound")]
       ELSE IF owners = {} THEN [pids |-> <<>>, err |-> ErrorOf("OwnerNotDetected")]
       ELSE [pids |-> SortedSeq(owners), err |-> NoErr]

Resolve(lv, tg) ==
    CASE tg.Type = "PID" -> ResolvePID(lv, tg.Value)
      [] tg.Type = "Port" -> ResolvePort(lv, tg.Value)
      [] tg.Type = "Name" -> ResolveName(lv, tg.Value)

----------------------------------------------------------------------------
(* process.BuildAncestry (spec 4.2): resolved process first, root last;     *)
(* NotFound only if the initial read fails, later read failures truncate    *)

MaxDepth == Cardinality(AllPids) + 1

RECURSIVE Walk(_,_,_)
Walk(lv, cur, depth) ==
    LET snap == ReadProcess(cur)
        parent == snap.parentPid
    IN IF parent = cur \/ ~Readable(lv, parent) \/ depth >= MaxDepth
       THEN <<snap>>
       ELSE <<snap>> \o Walk(lv, parent, depth + 1)

BuildAncestry(lv, p) ==
    IF ~Readable(lv, p) THEN [ancestry |-> <<>>, err |-> ErrorOf("NotFound")]
    ELSE [ancestry |-> Walk(lv, p, 1), err |-> NoErr]

----------------------------------------------------------------------------
(* source.Detect and source.Warnings (spec 4.3): pure functions of the chain *)

Shells == {C_bash}
Supervisors == {C_init}

Detect(anc) ==
    IF Len(anc) >= 1 /\ anc[1].command \in Shells THEN "shell-launched"
    ELSE IF Len(anc) >= 2 /\ anc[2].command \in Shells THEN "shell-launched"
    ELSE IF \E i \in 1..Len(anc) : anc[i].command \in Supervisors THEN "service-managed"
    ELSE "unknown"

Warnings(anc) ==
    (IF \E i \in 1..Len(anc) : anc[i].state = "zombie"
       THEN <<"zombie process in chain">> ELSE <<>>)
    \o (IF Len(anc) > 0 /\ anc[Len(anc)].parentPid \notin {0, anc[Len(anc)].pid}
       THEN <<"could not read ancestor">> ELSE <<>>)
    \o (IF Len(anc) > 0 /\ anc[Len(anc)].pid # 1
       THEN <<"chain root is not pid 1">> ELSE <<>>)

----------------------------------------------------------------------------
(* main.go 73-165: the decisions and the output of main *)

Line(kind) == [k |-> kind]

ResolveFailed_OnlyOwner(e) == e.kind = "OwnerNotDetected"

\* line 74: err != nil after target.Resolve
ResolveFailed(e) == e # NoErr

IsOwnerNotDetected_Loose(errStr) == Contains(errStr, <<"process", "not">>)

\* line 79: strings.Contains(errStr, "socket found but owning process not detected")
IsOwnerNotDetected(errStr) == Contains(errStr, OwnerNotDetectedText)

\* lines 83-90: "sudo " followed by os.Args joined with spaces
SudoLine(a) == [k |-> "sudo", args |-> a]

\* lines 75-94: everything printed when Resolve fails
ResolveErrorReport(e, a) ==
    <<Line("blank"), Line("Error:"), [k |-> "errtext", text |-> e.text]>>
    \o (IF IsOwnerNotDetected(e.text)
        THEN <<Line("socket-owner-not-detected"), Line("try-sudo"), SudoLine(a)>>
        ELSE <<Line("generic-not-found")>>)
    \o <<Line("usage-hint")>>

IsAmbiguous_OffByOne(p) == Len(p) > 2

\* line 98: len(pids) > 1
IsAmbiguous(p) == Len(p) > 1

CandidateLine_ZeroBased(i, p, lv) ==
    [k |-> "candidate", n |-> i, pid |-> p,
     cmdline |-> IF Readable(lv, p) THEN ReadProcess(p).command ELSE <<"(unknown)">>]

\* lines 101-107: one line of the candidate listing; i is the 0-based loop index
CandidateLine(i, p, lv) ==
    [k |-> "candidate", n |-> i + 1, pid |-> p,
     cmdline |-> IF Readable(lv, p) THEN ReadProcess(p).command ELSE <<"(unknown)">>]

\* lines 100-110
CandidateListing(p, lv) ==
    [i \in 1..Len(p) |-> CandidateLine(i - 1, p[i], lv)] \o <<Line("rerun-with-pid")>>

BuildFailed_Inverted(e) == e = NoErr

\* line 117: err != nil after process.BuildAncestry
BuildFailed(e) == e # NoErr

\* lines 118-122
BuildErrorReport(e) ==
    <<Line("blank"), Line("Error:"), [k |-> "errtext", text |-> e.text],
      Line("generic-not-found"), Line("usage-hint")>>

ZeroProcess == [pid |-> 0, parentPid |-> 0, command |-> <<>>, state |-> ""]

\* lines 128-136: proc = ancestry[len(ancestry)-1] (0-based), the last element
SelectProcess(anc) == IF Len(anc) > 0 THEN anc[Len(anc)] ELSE ZeroProcess

ResolvedTargetOf(anc) == IF Len(anc) > 0 THEN SelectProcess(anc).command ELSE <<"unknown">>

NoResult ==
    [Target |-> NoTarget, ResolvedTarget |-> <<>>, Process |-> ZeroProcess,
     Ancestry |-> <<>>, Source |-> "", Warnings |-> <<>>]

\* lines 138-145
BuildResult(tg, anc) ==
    [Target |-> tg, ResolvedTarget |-> ResolvedTargetOf(anc), Process |-> SelectProcess(anc),
     Ancestry |-> anc, Source |-> Detect(anc), Warnings |-> Warnings(anc)]

RenderMode_TreeFirst(fs) ==
    IF fs.json THEN "json"
    ELSE IF fs.tree THEN "tree"
    ELSE IF fs.warnings THEN "warnings"
    ELSE IF fs.short THEN "short"
    ELSE "standard"

\* lines 147-165: which presentation is produced
RenderMode(fs) ==
    IF fs.json THEN "json"
    ELSE IF fs.warnings THEN "warnings"
    ELSE IF fs.tree THEN "tree"
    ELSE IF fs.short THEN "short"
    ELSE "standard"

RendererOf(mode) ==
    CASE mode = "json" -> <<"output.ToJSON">>
      [] mode = "warnings" -> <<>>
      [] mode = "tree" -> <<"output.PrintTree">>
      [] mode = "short" -> <<"output.RenderShort">>
      [] mode = "standard" -> <<"output.RenderStandard">>

Presentation(mode, r, fs) ==
    CASE mode = "json" -> [k |-> "render", mode |-> mode, res |-> r]
      [] mode = "warnings" -> [k |-> "render", mode |-> mode, warnings |-> r.Warnings]
      [] mode = "tree" -> [k |-> "render", mode |-> mode, ancestry |-> r.Ancestry]
      [] mode = "short" -> [k |-> "render", mode |-> mode, res |-> r, color |-> ~fs.nocolor]
      [] mode = "standard" -> [k |-> "render", mode |-> mode, res |-> r, color |-> ~fs.nocolor]

----------------------------------------------------------------------------
(* The state machine *)

Init ==
    /\ args \in ArgLists
    /\ osArgs = args
    /\ pc = "start"
    /\ flags = FlagDefaults
    /\ positionals = <<>>
    /\ t = NoTarget
    /\ live = AllPids
    /\ exits = 0
    /\ pids = <<>>
    /\ err = NoErr
    /\ resolveErr = NoErr
    /\ pid = 0
    /\ ancestry = <<>>
    /\ res = NoResult
    /\ calls = <<>>
    /\ out = <<>>
    /\ exitCode = -1

Exit(code) == pc' = "exit" /\ exitCode' = code

\* lines 30-71: reorder, flag.Parse, --help, target selection
ParseArgs ==
    /\ pc = "start"
    /\ LET reordered == Reorder(args)
           parsed == FlagParse(FlagDefaults, Tail(reordered))
           tg == SelectTarget(parsed.flags, parsed.rest)
       IN /\ osArgs' = reordered
          /\ flags' = parsed.flags
          /\ positionals' = parsed.rest
          /\ IF parsed.error # "none"
             THEN /\ Exit(2)
                  /\ out' = Append(out, [k |-> "flag-error", msg |-> parsed.error])
                  /\ t' = t
             ELSE IF parsed.flags.help
             THEN /\ Exit(0)
                  /\ out' = Append(out, Line("help"))
                  /\ t' = t
             ELSE IF tg = NoTarget
             THEN /\ Exit(1)
                  /\ out' = Append(out, Line("help"))
                  /\ t' = t
             ELSE /\ pc' = "resolve"
                  /\ t' = tg
                  /\ UNCHANGED <<out, exitCode>>
    /\ UNCHANGED <<args, live, exits, pids, err, resolveErr, pid, ancestry, res, calls>>

\* lines 73-99: target.Resolve, its error report, the ambiguity test
ResolveStep ==
    /\ pc = "resolve"
    /\ LET r == Resolve(live, t)
       IN /\ calls' = Append(calls, "target.Resolve")
          /\ pids' = r.pids
          /\ err' = r.err
          /\ resolveErr' = r.err
          /\ IF ResolveFailed(r.err)
             THEN /\ out' = out \o ResolveErrorReport(r.err, osArgs)
                  /\ Exit(1)
             ELSE IF IsAmbiguous(r.pids)
             THEN /\ out' = Append(out, Line("multiple-matching"))
                  /\ pc' = "list"
                  /\ UNCHANGED exitCode
             ELSE /\ pc' = "build"
                  /\ UNCHANGED <<out, exitCode>>
    /\ UNCHANGED <<args, osArgs, flags, positionals, t, live, exits, pid, ancestry, res>>

\* lines 100-111: list every candidate (reading /proc/<pid>/cmdline) and exit
ListStep ==
    /\ pc = "list"
    /\ out' = out \o CandidateListing(pids, live)
    /\ Exit(1)
    /\ UNCHANGED <<args, osArgs, flags, positionals, t, live, exits, pids, err,
                   resolveErr, pid, ancestry, res, calls>>

\* lines 114-124: pids[0], process.BuildAncestry and its error report
BuildStep ==
    /\ pc = "build"
    /\ IF Len(pids) = 0
       THEN \* pids[0] on an empty slice: runtime panic, exit status 2
            /\ Exit(2)
            /\ out' = Append(out, Line("panic"))
            /\ UNCHANGED <<pid, ancestry, err, calls>>
       ELSE LET b == BuildAncestry(live, pids[1])
            IN /\ pid' = pids[1]
               /\ calls' = Append(calls, "process.BuildAncestry")
               /\ ancestry' = b.ancestry
               /\ err' = b.err
               /\ IF BuildFailed(b.err)
                  THEN /\ out' = out \o BuildErrorReport(b.err)
                       /\ Exit(1)
                  ELSE /\ pc' = "render"
                       /\ UNCHANGED <<out, exitCode>>
    /\ UNCHANGED <<args, osArgs, flags, positionals, t, live, exits, pids, resolveErr, res>>

\* lines 126-165: source.Detect, the Result, source.Warnings, one renderer
RenderStep ==
    /\ pc = "render"
    /\ LET r == BuildResult(t, ancestry)
           mode == RenderMode(flags)
       IN /\ res' = r
          /\ calls' = (calls \o <<"source.Detect", "source.Warnings">>) \o RendererOf(mode)
          /\ out' = Append(out, Presentation(mode, r, flags))
    /\ Exit(0)
    /\ UNCHANGED <<args, osArgs, flags, positionals, t, live, exits, pids, err,
                   resolveErr, pid, ancestry>>

\* the environment: a process exits between two reads of the pipeline
ProcExit(p) ==
    /\ pc \in {"resolve", "list", "build"}
    /\ exits < MaxExits
    /\ p \in live
    /\ live' = live \ {p}
    /\ exits' = exits + 1
    /\ UNCHANGED <<args, osArgs, pc, flags, positionals, t, pids, err, resolveErr,
                   pid, ancestry, res, calls, out, exitCode>>

Next ==
    \/ ParseArgs
    \/ ResolveStep
    \/ ListStep
    \/ BuildStep
    \/ RenderStep
    \/ \E p \in AllPids : ProcExit(p)

Spec == Init /\ [][Next]_vars

----------------------------------------------------------------------------
(* Properties *)

Called(name) == \E i \in 1..Len(calls) : calls[i] = name

Printed(kind) == \E i \in 1..Len(out) : out[i].k = kind

LinesOf(kind) == SelectSeq(out, LAMBDA e : e.k = kind)

Renderers == {"output.ToJSON", "output.PrintTree", "output.RenderShort", "output.RenderStandard"}

PipelineCalls == {"process.BuildAncestry", "source.Detect", "source.Warnings"} \cup Renderers

\* C1: whenever target.Resolve returns an error the run is over with exit
\* status 1, nothing after Resolve was invoked (no BuildAncestry, Detect,
\* Warnings, renderer, no presentation, no candidate listing) and the text
\* printed under "Error:" is exactly the text of Resolve's error.
C1_ResolveErrorAborts ==
    resolveErr # NoErr =>
        /\ pc = "exit"
        /\ exitCode = 1
        /\ calls = <<"target.Resolve">>
        /\ ~Printed("render") /\ ~Printed("candidate")
        /\ LinesOf("errtext") = <<[k |-> "errtext", text |-> resolveErr.text]>>

C1_Witness ==
    /\ pc = "exit"
    /\ resolveErr.kind = "NotFound"
    /\ t.Type = "Name"
    /\ Printed("errtext")

\* C2 as stated: the sudo guidance is printed iff Resolve failed with
\* OwnerNotDetected, the generic guidance is printed iff Resolve failed with
\* another error, and the two are never printed together.
C2_GuidanceIffResolveError ==
    pc = "exit" =>
        /\ Printed("sudo") <=> resolveErr.kind = "OwnerNotDetected"
        /\ Printed("generic-not-found") <=> resolveErr.kind \in {"NotFound", "InvalidQuery"}
        /\ ~(Printed("sudo") /\ Printed("generic-not-found"))

\* C2 amended: the sudo guidance is printed iff Resolve failed with
\* OwnerNotDetected; the generic guidance is printed iff Resolve failed with
\* another error or, Resolve having succeeded, BuildAncestry failed; the two
\* are never printed together, and each at most once.
C2_GuidanceByFailure ==
    /\ Printed("sudo") <=> resolveErr.kind = "OwnerNotDetected"
    /\ Printed("generic-not-found") <=>
          \/ resolveErr.kind \in {"NotFound", "InvalidQuery"}
          \/ (resolveErr = NoErr /\ Called("process.BuildAncestry") /\ err # NoErr)
    /\ ~(Printed("sudo") /\ Printed("generic-not-found"))
    /\ Len(LinesOf("sudo")) <= 1 /\ Len(LinesOf("generic-not-found")) <= 1

C2_Witness ==
    /\ pc = "exit"
    /\ resolveErr.kind = "OwnerNotDetected"
    /\ t.Type = "Port"
    /\ Printed("sudo")

\* C3: when Resolve succeeds with more than one candidate nothing is selected:
\* no collaborator after Resolve is invoked, the run ends with exit status 1
\* and the listing has one line per candidate, line i numbered i and naming
\* the i-th pid Resolve returned; BuildAncestry runs only with one candidate.
C3_NoAutoSelect ==
    /\ (resolveErr = NoErr /\ Len(pids) > 1) =>
          /\ calls = <<"target.Resolve">>
          /\ pc \in {"list", "exit"}
          /\ ~Printed("render")
          /\ pc = "exit" =>
                /\ exitCode = 1
                /\ Len(LinesOf("candidate")) = Len(pids)
                /\ \A i \in 1..Len(pids) :
                      /\ LinesOf("candidate")[i].n = i
                      /\ LinesOf("candidate")[i].pid = pids[i]
                /\ \A i, j \in 1..Len(pids) : pids[i] = pids[j] => i = j
    /\ Called("process.BuildAncestry") => Cardinality({pids[i] : i \in 1..Len(pids)}) = 1

C3_Witness ==
    /\ pc = "exit"
    /\ resolveErr = NoErr
    /\ Len(pids) = 3
    /\ Len(LinesOf("candidate")) = 3

\* C4 as stated: the Result handed to rendering has process equal to the
\* snapshot of the resolved process (the single candidate of Resolve) and
\* resolvedTarget equal to its command, for chains of every length.
C4_ResultIsResolvedProcess ==
    (pc = "exit" /\ Printed("render")) =>
        /\ res.Process = ReadProcess(pids[1])
        /\ res.ResolvedTarget = ReadProcess(pids[1]).command

\* original arguments, seen as the user wrote them
PidWritten == \E i \in 2..Len(args) : args[i] = T_pid
PortWritten == \E i \in 2..Len(args) : args[i] \in {T_port, T_portEq3}
NameWritten ==
    \E i \in 2..Len(args) : args[i] \in ValueTokens /\ args[i - 1] \notin {T_pid, T_port}

SuppliedCount ==
    (IF PidWritten THEN 1 ELSE 0) + (IF PortWritten THEN 1 ELSE 0)
    + (IF NameWritten THEN 1 ELSE 0)

\* every --pid and --port is written with its value right after it, and no
\* other flag than the documented ones is written
WellFormedArgs ==
    \A i \in 2..Len(args) :
        /\ args[i] \in {T_pid, T_port} => (i < Len(args) /\ args[i + 1] \in ValueTokens)
        /\ args[i] # T_undef

\* C5 as stated: target.Resolve is reached only when exactly one of pid,
\* port, name was supplied (checked on the command lines in which every
\* --pid and --port has its value, so that what was supplied is not in doubt).
C5_ExactlyOneSupplied ==
    (WellFormedArgs /\ Called("target.Resolve")) => SuppliedCount = 1

FullChain(p) == Walk(AllPids, p, 1)

AncestorExited(p) == \E i \in 2..Len(FullChain(p)) : FullChain(p)[i].pid \notin live

SingleResolved == resolveErr = NoErr /\ Called("target.Resolve") /\ Len(pids) = 1

\* C6 as stated: once Resolve has returned a single candidate, the run never
\* ends in an error exit: it renders a Result.
C6_NoAbortAfterResolve ==
    (pc = "exit" /\ SingleResolved) => (exitCode = 0 /\ Printed("render"))

\* C6 amended: after Resolve returned a single candidate, the run ends in an
\* error exit (status 1, NotFound printed, nothing rendered) exactly when the
\* resolved process itself is gone at BuildAncestry's initial read; when only
\* ancestors exited, the run renders a Result whose chain starts at the
\* resolved process, is shorter than the full lineage and carries a warning.
\* (No process exits after BuildAncestry in the model, so `live` at exit is
\* the table BuildAncestry read.)
C6_AbortOnlyAtInitialRead ==
    (pc = "exit" /\ SingleResolved) =>
        IF pids[1] \in live
        THEN /\ exitCode = 0
             /\ Len(LinesOf("render")) = 1
             /\ Len(ancestry) >= 1 /\ ancestry[1].pid = pids[1]
             /\ AncestorExited(pids[1]) =>
                   /\ Len(ancestry) < Len(FullChain(pids[1]))
                   /\ res.Warnings # <<>>
        ELSE /\ exitCode = 1
             /\ err.kind = "NotFound"
             /\ ~Printed("render")

C6_Witness ==
    /\ pc = "exit"
    /\ SingleResolved
    /\ pids[1] \in live
    /\ AncestorExited(pids[1])
    /\ exitCode = 0
    /\ Len(ancestry) = 2

\* the original command line is one "--pid N" or "--port N" pair at position
\* i, i+1, plus boolean flags and at most one positional name, in any order
IsTargetPair(i) ==
    /\ i \in 2..(Len(args) - 1)
    /\ args[i] \in {T_pid, T_port}
    /\ IsNumber(args[i + 1])

OthersAreFlagsAndName(i) ==
    LET others == {j \in 2..Len(args) : j \notin {i, i + 1}}
    IN /\ \A j \in others : args[j] \in BoolTokens \cup ValueTokens
       /\ Cardinality({j \in others : args[j] \in ValueTokens}) <= 1

BoolWritten(tok) == \E j \in 2..Len(args) : args[j] = tok

\* C7 as stated: for such a command line the parsed target is {PID, N}
\* (respectively {Port, N}) and every boolean flag that was written is set.
C7_ReorderPreservesMeaning ==
    \A i \in 2..Len(args) :
        (pc # "start" /\ IsTargetPair(i) /\ OthersAreFlagsAndName(i)) =>
            /\ t = [Type |-> IF args[i] = T_pid THEN "PID" ELSE "Port", Value |-> args[i + 1]]
            /\ BoolWritten(T_short) => flags.short
            /\ BoolWritten(T_tree) => flags.tree
            /\ BoolWritten(T_json) => flags.json
            /\ BoolWritten(T_warnings) => flags.warnings
            /\ BoolWritten(T_nocolor) => flags.nocolor

Rendered == LinesOf("render")

RendererCalls == SelectSeq(calls, LAMBDA c : c \in Renderers)

\* C8: a run in which Resolve returned one candidate and BuildAncestry no
\* error ends with exactly one presentation, the one of highest priority
\* json > warnings > tree > short > standard among the flags set, and at most
\* one renderer call, the one of that mode; every other run and every
\* unfinished run has produced no presentation and called no renderer.
C8_OnePresentationByPriority ==
    IF pc = "exit" /\ SingleResolved /\ Called("process.BuildAncestry") /\ err = NoErr
    THEN /\ Len(Rendered) = 1
         /\ flags.json => Rendered[1].mode = "json" /\ RendererCalls = <<"output.ToJSON">>
         /\ (~flags.json /\ flags.warnings) =>
               Rendered[1].mode = "warnings" /\ RendererCalls = <<>>
         /\ (~flags.json /\ ~flags.warnings /\ flags.tree) =>
               Rendered[1].mode = "tree" /\ RendererCalls = <<"output.PrintTree">>
         /\ (~flags.json /\ ~flags.warnings /\ ~flags.tree /\ flags.short) =>
               Rendered[1].mode = "short" /\ RendererCalls = <<"output.RenderShort">>
         /\ (~flags.json /\ ~flags.warnings /\ ~flags.tree /\ ~flags.short) =>
               Rendered[1].mode = "standard" /\ RendererCalls = <<"output.RenderStandard">>
    ELSE Rendered = <<>> /\ RendererCalls = <<>>

C8_Witness ==
    /\ pc = "exit"
    /\ flags.warnings /\ flags.tree /\ ~flags.json
    /\ Len(Rendered) = 1
    /\ Rendered[1].mode = "warnings"

\* C9 as stated: the arguments printed after "sudo" are the argument list of
\* the invocation, token for token and in the original order.
C9_SudoEchoesCommand ==
    \A i \in 1..Len(out) : out[i].k = "sudo" => out[i].args = args

\* C10: whenever control reaches pids[0] the candidate list has exactly one
\* element: an empty list is never indexed, and the pid handed to
\* BuildAncestry is the one candidate Resolve returned.
C10_SingleCandidateSelected ==
    /\ pc = "build" => Len(pids) = 1
    /\ ~Printed("panic")
    /\ Called("process.BuildAncestry") =>
          /\ Len(pids) = 1
          /\ pid = pids[1]
          /\ pid \in {pids[i] : i \in 1..Len(pids)}

C10_Witness ==
    /\ Called("process.BuildAncestry")
    /\ Len(pids) = 1
    /\ pid = pids[1]
    /\ t.Type = "Port"

====
